---- MODULE Spec2Model ----
(***************************************************************************)
(* KRR v2.1.1 (krr.py): the encode/decode codec between composed Hangul    *)
(* syllables and their romanized blocks.                                   *)
(*                                                                         *)
(* A character is its Unicode code point (an integer); a string is a       *)
(* sequence of code points.  Python indices are 0-based: At(T, i) is T[i]. *)
(***************************************************************************)
EXTENDS Integers, Sequences, FiniteSets, TLC

(* ---------------------------- bounds ---------------------------------- *)

\* Longest input text drawn from the alphabets below.
MaxLen == 3

(* ------------------- configuration and constants ----------------------- *)

\* SEPARATOR = "\\"
SEPARATOR == 92
\* ' ', the soft delimiter of decode
SPACE == 32
\* '"' and "'", the characters of text.strip('"\'')
DQUOTE == 34
SQUOTE == 39
\* '가' (ord 44032) and '힣', the composed-syllable range
HANGUL_BASE == 44032
HANGUL_LAST == 55203

\* The onset table with the backquote of g` left out: g appears twice.
INITIALS_Typo ==
    << <<103>>, <<103>>, <<110>>, <<100>>, <<100, 96>>,
       <<108>>, <<109>>, <<98>>, <<98, 96>>, <<115>>,
       <<115, 96>>, <<>>, <<106>>, <<106, 96>>, <<99, 104>>,
       <<107>>, <<116>>, <<112>>, <<104>> >>

\* 19 initial consonants: g g` n d d` l m b b` s s` '' j j` ch k t p h
INITIALS ==
    << <<103>>, <<103, 96>>, <<110>>, <<100>>, <<100, 96>>,
       <<108>>, <<109>>, <<98>>, <<98, 96>>, <<115>>,
       <<115, 96>>, <<>>, <<106>>, <<106, 96>>, <<99, 104>>,
       <<107>>, <<116>>, <<112>>, <<104>> >>

\* 21 medial vowels: a ä ya yä u è yu yè o wa wä ö yo oo ü wè wi yoo e~ e~i i
MEDIALS ==
    << <<97>>, <<228>>, <<121, 97>>, <<121, 228>>, <<117>>,
       <<232>>, <<121, 117>>, <<121, 232>>, <<111>>, <<119, 97>>,
       <<119, 228>>, <<246>>, <<121, 111>>, <<111, 111>>, <<252>>,
       <<119, 232>>, <<119, 105>>, <<121, 111, 111>>, <<101, 126>>,
       <<101, 126, 105>>, <<105>> >>

\* 28 final consonants: '' g g` gs n nj nh d l lg lm lb ls lt lp lh m b bs
\* s s` ng~ j ch k t p h
FINALS ==
    << <<>>, <<103>>, <<103, 96>>, <<103, 115>>, <<110>>,
       <<110, 106>>, <<110, 104>>, <<100>>, <<108>>, <<108, 103>>,
       <<108, 109>>, <<108, 98>>, <<108, 115>>, <<108, 116>>, <<108, 112>>,
       <<108, 104>>, <<109>>, <<98>>, <<98, 115>>, <<115>>,
       <<115, 96>>, <<110, 103, 126>>, <<106>>, <<99, 104>>, <<107>>,
       <<116>>, <<112>>, <<104>> >>

\* T[i] with Python's 0-based index
At(T, i) == T[i + 1]

Range(T) == {T[k] : k \in 1..Len(T)}

Max(S) == CHOOSE x \in S : \A y \in S : y <= x

\* {val: idx for idx, val in enumerate(T)}: a later index overwrites an
\* earlier one with the same token.
MapOf(T) == [tok \in Range(T) |-> Max({k - 1 : k \in {j \in 1..Len(T) : T[j] = tok}})]

INITIAL_MAP == MapOf(INITIALS)
MEDIAL_MAP == MapOf(MEDIALS)
FINAL_MAP == MapOf(FINALS)

\* list.insert keeping descending length; x goes after every element that
\* is at least as long (the sort is stable).
RECURSIVE InsertByLenDesc(_, _)
InsertByLenDesc(x, s) ==
    IF s = <<>> THEN <<x>>
    ELSE IF Len(Head(s)) >= Len(x) THEN <<Head(s)>> \o InsertByLenDesc(x, Tail(s))
    ELSE <<x>> \o s

\* sorted(T, key=len, reverse=True) over the first n elements of T
RECURSIVE SortedPrefix(_, _)
SortedPrefix(T, n) ==
    IF n = 0 THEN <<>> ELSE InsertByLenDesc(T[n], SortedPrefix(T, n - 1))

\* The ascending sort a missing reverse=True would give.
RECURSIVE InsertByLenAsc(_, _)
InsertByLenAsc(x, s) ==
    IF s = <<>> THEN <<x>>
    ELSE IF Len(Head(s)) <= Len(x) THEN <<Head(s)>> \o InsertByLenAsc(x, Tail(s))
    ELSE <<x>> \o s

RECURSIVE SortedPrefixAsc(_, _)
SortedPrefixAsc(T, n) ==
    IF n = 0 THEN <<>> ELSE InsertByLenAsc(T[n], SortedPrefixAsc(T, n - 1))

SORTED_MEDIALS_Ascending == SortedPrefixAsc(MEDIALS, Len(MEDIALS))

\* _SORTED_MEDIALS
SORTED_MEDIALS == SortedPrefix(MEDIALS, Len(MEDIALS))

(* --------------------------- string helpers ---------------------------- *)

\* "".join(parts)
RECURSIVE Concat(_)
Concat(parts) ==
    IF parts = <<>> THEN <<>> ELSE Head(parts) \o Concat(Tail(parts))

\* A join that also puts the separator after the last block.
RECURSIVE JoinTrailing(_, _)
JoinTrailing(sep, parts) ==
    IF parts = <<>> THEN <<>>
    ELSE Head(parts) \o <<sep>> \o JoinTrailing(sep, Tail(parts))

\* sep.join(parts)
RECURSIVE Join(_, _)
Join(sep, parts) ==
    IF parts = <<>> THEN <<>>
    ELSE IF Len(parts) = 1 THEN Head(parts)
    ELSE Head(parts) \o <<sep>> \o Join(sep, Tail(parts))

RECURSIVE LStrip(_, _)
LStrip(s, chars) ==
    IF s # <<>> /\ Head(s) \in chars THEN LStrip(Tail(s), chars) ELSE s

RECURSIVE RStrip(_, _)
RStrip(s, chars) ==
    IF s # <<>> /\ s[Len(s)] \in chars
    THEN RStrip(SubSeq(s, 1, Len(s) - 1), chars) ELSE s

\* s.strip(chars): every leading and every trailing character of chars
Strip(s, chars) == RStrip(LStrip(s, chars), chars)

\* s.replace(c, by) for a one-character c
RECURSIVE Replace(_, _, _)
Replace(s, c, by) ==
    IF s = <<>> THEN <<>>
    ELSE (IF Head(s) = c THEN by ELSE <<Head(s)>>) \o Replace(Tail(s), c, by)

\* positions (1-based) where sub occurs in s
Occurrences(sub, s) ==
    {k \in 1..(Len(s) - Len(sub) + 1) : SubSeq(s, k, k + Len(sub) - 1) = sub}

\* sub in s
Contains(sub, s) == Occurrences(sub, s) # {}

Min(S) == CHOOSE x \in S : \A y \in S : x <= y

\* s.partition(sub): split at the first occurrence of sub
Partition(s, sub) ==
    IF ~Contains(sub, s) THEN <<s, <<>>, <<>>>>
    ELSE LET k == Min(Occurrences(sub, s))
         IN <<SubSeq(s, 1, k - 1), sub, SubSeq(s, k + Len(sub), Len(s))>>

\* s.split(sep) for a one-character sep; "".split(sep) is [""]
RECURSIVE Split(_, _)
Split(s, sep) ==
    IF ~Contains(<<sep>>, s) THEN <<s>>
    ELSE LET k == Min(Occurrences(<<sep>>, s))
         IN <<SubSeq(s, 1, k - 1)>> \o Split(SubSeq(s, k + 1, Len(s)), sep)

(* ------------------------ per-character arithmetic --------------------- *)

\* '가' <= char <= '힣'
IsSyllable(char) == HANGUL_BASE <= char /\ char <= HANGUL_LAST

\* A decomposition whose coda is taken modulo 27, one short of the table.
DecomposeWrong(code) ==
    [onset |-> code \div 588, nucleus |-> (code % 588) \div 28, coda |-> code % 27]

\* onset = code // 588; nucleus = (code % 588) // 28; coda = code % 28
Decompose(code) ==
    [onset |-> code \div 588, nucleus |-> (code % 588) \div 28, coda |-> code % 28]

\* INITIALS[onset] + MEDIALS[nucleus] + FINALS[coda]
Syllable(d) == At(INITIALS, d.onset) \o At(MEDIALS, d.nucleus) \o At(FINALS, d.coda)

\* A recomposition with the nucleus weight mistaken for the table size.
ComposeWrong(o, n, c) == HANGUL_BASE + (o * 588) + (n * 21) + c

\* char_code = 44032 + (onset * 588) + (nucleus * 28) + coda
Compose(o, n, c) == HANGUL_BASE + (o * 588) + (n * 28) + c

(* ------------------------------ inputs --------------------------------- *)

\* Raw text given to encode: the syllables of the test word "국밥", the
\* two characters decode treats specially, the separator, a character no
\* table knows ('!') and a Latin letter that is also a nucleus token ('a').
EncodeAlphabet == {44397, 48165, DQUOTE, SPACE, SEPARATOR, 33, 97}

\* Romanized text given to decode directly: quote, space, separator and the
\* letters a g y o, which spell the overlapping nucleus tokens a, ya, o, yo,
\* oo, yoo and the onset/coda token g.
DecodeAlphabet == {DQUOTE, SPACE, SEPARATOR, 97, 103, 121, 111}

Strings(A, n) == UNION {[1..k -> A] : k \in 0..n}

\* Every single syllable, and every short string over EncodeAlphabet.
EncodeInputs ==
    {<<c>> : c \in HANGUL_BASE..HANGUL_LAST} \cup Strings(EncodeAlphabet, MaxLen)

DecodeInputs == Strings(DecodeAlphabet, MaxLen)

(* ------------------------------- state --------------------------------- *)

VARIABLES
    arg,        \* args.text / the test's input
    mode,       \* "encode" or "decode" (args.decode)
    pc,         \* position in main / encode / decode
    text,       \* the parameter (and local) `text` of the running function
    result,     \* the list `result` of the running function
    i,          \* 1-based position of encode's `for char in text`
    code,       \* encode's `code`
    onset,      \* `onset` of the running function
    nucleus,    \* `nucleus` of the running function
    coda,       \* `coda` of the running function
    romanized,  \* what encode returned
    stdout,     \* what main printed in encode mode
    dtext,      \* the argument decode was called with
    blocks,     \* decode's `blocks`
    bi,         \* 1-based position of decode's `for block in blocks`
    block,      \* decode's `block`
    vi,         \* 1-based position of decode's `for vowel in _SORTED_MEDIALS`
    vowel,      \* decode's `vowel`
    p,          \* decode's `p`, the last partition taken
    matched,    \* decode's `matched`
    char_code,  \* decode's `char_code`
    restored    \* what decode returned

vars == <<arg, mode, pc, text, result, i, code, onset, nucleus, coda, romanized,
          stdout, dtext, blocks, bi, block, vi, vowel, p, matched, char_code,
          restored>>

encVars == <<i, code, romanized, stdout>>
decVars == <<dtext, blocks, bi, block, vi, vowel, p, matched, char_code, restored>>

\* The value of a local that has not been assigned.
None == -1

Init ==
    /\ \E a \in (EncodeInputs \X {"encode"}) \cup (DecodeInputs \X {"decode"}) :
          arg = a[1] /\ mode = a[2]
    /\ pc = "main"
    /\ text = <<>> /\ result = <<>> /\ i = 1 /\ code = None
    /\ onset = None /\ nucleus = None /\ coda = None
    /\ romanized = <<>> /\ stdout = <<>> /\ dtext = <<>>
    /\ blocks = <<>> /\ bi = 1 /\ block = <<>> /\ vi = 1 /\ vowel = <<>>
    /\ p = <<>> /\ matched = FALSE /\ char_code = None /\ restored = <<>>

(* ------------------------------- encode -------------------------------- *)

\* encode(t) is entered: result = []
CallEncode(t) ==
    /\ text' = t /\ result' = <<>> /\ i' = 1 /\ pc' = "enc_loop"
    /\ code' = None /\ onset' = None /\ nucleus' = None /\ coda' = None

\* main, not args.decode: encode(args.text)
MainEncode ==
    /\ pc = "main" /\ mode = "encode"
    /\ CallEncode(arg)
    /\ UNCHANGED <<arg, mode, romanized, stdout>> /\ UNCHANGED decVars

\* one iteration of `for char in text` on a syllable
EncodeSyllable ==
    /\ pc = "enc_loop" /\ i <= Len(text) /\ IsSyllable(text[i])
    /\ LET c == text[i] - HANGUL_BASE
           d == Decompose(c)
       IN /\ code' = c
          /\ onset' = d.onset /\ nucleus' = d.nucleus /\ coda' = d.coda
          /\ result' = Append(result, Syllable(d))
    /\ i' = i + 1
    /\ UNCHANGED <<arg, mode, pc, text, romanized, stdout>> /\ UNCHANGED decVars

\* one iteration of `for char in text` on any other character
EncodePassthrough ==
    /\ pc = "enc_loop" /\ i <= Len(text) /\ ~IsSyllable(text[i])
    /\ result' = Append(result, <<text[i]>>)
    /\ i' = i + 1
    /\ UNCHANGED <<arg, mode, pc, text, code, onset, nucleus, coda, romanized, stdout>>
    /\ UNCHANGED decVars

\* return SEPARATOR.join(result)
EncodeReturn ==
    /\ pc = "enc_loop" /\ i > Len(text)
    /\ romanized' = Join(SEPARATOR, result)
    /\ pc' = "encoded"
    /\ UNCHANGED <<arg, mode, text, result, i, code, onset, nucleus, coda, stdout>>
    /\ UNCHANGED decVars

\* print(f'"{encode(args.text)}"')
MainPrint ==
    /\ pc = "encoded"
    /\ stdout' = <<DQUOTE>> \o romanized \o <<DQUOTE>>
    /\ pc' = "printed"
    /\ UNCHANGED <<arg, mode, text, result, i, code, onset, nucleus, coda, romanized>>
    /\ UNCHANGED decVars

(* ------------------------------- decode -------------------------------- *)

\* decode(t) is entered: result = []
CallDecode(t) ==
    /\ dtext' = t /\ text' = t /\ result' = <<>> /\ pc' = "dec_strip"
    /\ onset' = None /\ nucleus' = None /\ coda' = None
    /\ blocks' = <<>> /\ bi' = 1 /\ block' = <<>> /\ vi' = 1 /\ vowel' = <<>>
    /\ p' = <<>> /\ matched' = FALSE /\ char_code' = None /\ restored' = <<>>

\* main, args.decode: decode(args.text)
MainDecode ==
    /\ pc = "main" /\ mode = "decode"
    /\ CallDecode(arg)
    /\ UNCHANGED <<arg, mode>> /\ UNCHANGED encVars

\* the test: restored = decode(romanized)
TestDecode ==
    /\ pc = "encoded"
    /\ CallDecode(romanized)
    /\ UNCHANGED <<arg, mode>> /\ UNCHANGED encVars

\* the printed, quoted output handed back to `-d` as its argument
ShellDecode ==
    /\ pc = "printed"
    /\ CallDecode(stdout)
    /\ UNCHANGED <<arg, mode>> /\ UNCHANGED encVars

\* text = text.strip('"\'')
DecodeStrip ==
    /\ pc = "dec_strip"
    /\ text' = Strip(text, {DQUOTE, SQUOTE})
    /\ pc' = "dec_split"
    /\ UNCHANGED <<arg, mode, result, onset, nucleus, coda, dtext, blocks, bi, block,
                   vi, vowel, p, matched, char_code, restored>>
    /\ UNCHANGED encVars

\* A replace that turns the space into a bare separator.
ReplaceSpacesDropped(t) == Replace(t, SPACE, <<SEPARATOR>>)

\* A replace that forgets the separator in front of the space.
ReplaceSpacesNoLead(t) == Replace(t, SPACE, <<SPACE, SEPARATOR>>)

\* text.replace(" ", f"{SEPARATOR} {SEPARATOR}")
ReplaceSpaces(t) == Replace(t, SPACE, <<SEPARATOR, SPACE, SEPARATOR>>)

\* text = text.replace(...); blocks = text.split(SEPARATOR)
DecodeSplit ==
    /\ pc = "dec_split"
    /\ text' = ReplaceSpaces(text)
    /\ blocks' = Split(text', SEPARATOR)
    /\ bi' = 1
    /\ pc' = "dec_block"
    /\ UNCHANGED <<arg, mode, result, onset, nucleus, coda, dtext, block, vi, vowel,
                   p, matched, char_code, restored>>
    /\ UNCHANGED encVars

\* for block in blocks: if not block: continue
DecodeSkipEmpty ==
    /\ pc = "dec_block" /\ bi <= Len(blocks) /\ blocks[bi] = <<>>
    /\ block' = blocks[bi]
    /\ bi' = bi + 1
    /\ UNCHANGED <<arg, mode, pc, text, result, onset, nucleus, coda, dtext, blocks,
                   vi, vowel, p, matched, char_code, restored>>
    /\ UNCHANGED encVars

\* for block in blocks: matched = False, and the vowel loop is entered
DecodeBlock ==
    /\ pc = "dec_block" /\ bi <= Len(blocks) /\ blocks[bi] # <<>>
    /\ block' = blocks[bi]
    /\ bi' = bi + 1
    /\ matched' = FALSE
    /\ vi' = 1
    /\ pc' = "dec_vowel"
    /\ UNCHANGED <<arg, mode, text, result, onset, nucleus, coda, dtext, blocks,
                   vowel, p, char_code, restored>>
    /\ UNCHANGED encVars

\* onset_str in INITIAL_MAP and coda_str in FINAL_MAP
Validates(q) == q[1] \in DOMAIN INITIAL_MAP /\ q[3] \in DOMAIN FINAL_MAP

\* for vowel in _SORTED_MEDIALS: `if vowel in block` is false
DecodeVowelAbsent ==
    /\ pc = "dec_vowel" /\ vi <= Len(SORTED_MEDIALS)
    /\ ~Contains(SORTED_MEDIALS[vi], block)
    /\ vowel' = SORTED_MEDIALS[vi]
    /\ vi' = vi + 1
    /\ UNCHANGED <<arg, mode, pc, text, result, onset, nucleus, coda, dtext, blocks,
                   bi, block, p, matched, char_code, restored>>
    /\ UNCHANGED encVars

\* for vowel in _SORTED_MEDIALS: the partition does not validate
DecodeVowelReject ==
    /\ pc = "dec_vowel" /\ vi <= Len(SORTED_MEDIALS)
    /\ Contains(SORTED_MEDIALS[vi], block)
    /\ vowel' = SORTED_MEDIALS[vi]
    /\ p' = Partition(block, vowel')
    /\ ~Validates(p')
    /\ vi' = vi + 1
    /\ UNCHANGED <<arg, mode, pc, text, result, onset, nucleus, coda, dtext, blocks,
                   bi, block, matched, char_code, restored>>
    /\ UNCHANGED encVars

\* for vowel in _SORTED_MEDIALS: the partition validates; the character is
\* rebuilt and appended, matched = True, break
DecodeVowelAccept ==
    /\ pc = "dec_vowel" /\ vi <= Len(SORTED_MEDIALS)
    /\ Contains(SORTED_MEDIALS[vi], block)
    /\ vowel' = SORTED_MEDIALS[vi]
    /\ p' = Partition(block, vowel')
    /\ Validates(p')
    /\ onset' = INITIAL_MAP[p'[1]]
    /\ nucleus' = MEDIAL_MAP[p'[2]]
    /\ coda' = FINAL_MAP[p'[3]]
    /\ char_code' = Compose(onset', nucleus', coda')
    /\ result' = Append(result, <<char_code'>>)
    /\ matched' = TRUE
    /\ pc' = "dec_block"
    /\ UNCHANGED <<arg, mode, text, dtext, blocks, bi, block, vi, restored>>
    /\ UNCHANGED encVars

\* the vowel loop ran out: if not matched: result.append(block)
DecodeNoMatch ==
    /\ pc = "dec_vowel" /\ vi > Len(SORTED_MEDIALS)
    /\ ~matched
    /\ result' = Append(result, block)
    /\ pc' = "dec_block"
    /\ UNCHANGED <<arg, mode, text, onset, nucleus, coda, dtext, blocks, bi, block,
                   vi, vowel, p, matched, char_code, restored>>
    /\ UNCHANGED encVars

\* return "".join(result)
DecodeReturn ==
    /\ pc = "dec_block" /\ bi > Len(blocks)
    /\ restored' = Concat(result)
    /\ pc' = "done"
    /\ UNCHANGED <<arg, mode, text, result, onset, nucleus, coda, dtext, blocks, bi,
                   block, vi, vowel, p, matched, char_code>>
    /\ UNCHANGED encVars

Next ==
    \/ MainEncode \/ EncodeSyllable \/ EncodePassthrough \/ EncodeReturn
    \/ MainPrint \/ MainDecode \/ TestDecode \/ ShellDecode
    \/ DecodeStrip \/ DecodeSplit \/ DecodeSkipEmpty \/ DecodeBlock
    \/ DecodeVowelAbsent \/ DecodeVowelReject \/ DecodeVowelAccept
    \/ DecodeNoMatch \/ DecodeReturn

Spec == Init /\ [][Next]_vars

(* ======================= properties of the codec ====================== *)

Quotes == {DQUOTE, SQUOTE}

\* the blocks decode does not skip
NonEmpty(bs) == SelectSeq(bs, LAMBDA b : b # <<>>)

\* s without its separator characters
RemoveSeparators(s) == SelectSeq(s, LAMBDA c : c # SEPARATOR)

\* decode has split its input
Splitted == pc \in {"dec_block", "dec_vowel", "done"}

\* the outer loop of decode has just finished a non-empty block
BlockDone == pc = "dec_block" /\ bi > 1 /\ block # <<>>

\* nucleus token v, cut out of block b at its first occurrence, leaves a
\* valid Onset token in front and a valid Coda token behind
ValidCandidate(v, b) ==
    /\ Contains(v, b)
    /\ Partition(b, v)[1] \in Range(INITIALS)
    /\ Partition(b, v)[3] \in Range(FINALS)

NoCandidate(b) == \A v \in Range(MEDIALS) : ~ValidCandidate(v, b)

(* ------------------------------- C1 ------------------------------------ *)

AllSyllabic(s) == \A k \in 1..Len(s) : IsSyllable(s[k])

\* C1: for every string x made only of syllabic code points (every single
\* syllable, the empty string, short strings of syllables),
\* decode(encode(x)) = x.
C1_RoundTripSyllabic ==
    (pc = "done" /\ mode = "encode" /\ dtext = romanized /\ AllSyllabic(arg))
        => restored = arg

\* The test word "국밥" has been encoded to goog\bab and decoded back.
C1_Witness ==
    /\ pc = "done" /\ mode = "encode" /\ dtext = romanized
    /\ arg = <<44397, 48165>>
    /\ romanized = <<103, 111, 111, 103, 92, 98, 97, 98>>
    /\ restored = arg

(* ------------------------------- C2 ------------------------------------ *)

\* C2: for every string s of syllables and passthrough characters that
\* holds no separator, decode(encode(s)) = s.
C2_RoundTripNoSeparator ==
    (pc = "done" /\ mode = "encode" /\ dtext = romanized
        /\ SEPARATOR \notin Range(arg))
        => restored = arg

(* ------------------------------- C3 ------------------------------------ *)

RECURSIVE SumLen(_, _)
\* the length of the first k blocks of bs, each followed by one separator
SumLen(bs, k) == IF k = 0 THEN 0 ELSE SumLen(bs, k - 1) + Len(bs[k]) + 1

\* C3: encode emits one block per input character, in input order (the
\* character itself when it is no syllable), and the output is these
\* blocks with one separator between consecutive blocks, none before the
\* first or after the last; encode("") = "".
C3_OneBlockPerCharacter ==
    pc \in {"encoded", "printed"} =>
        LET n == Len(arg) IN
        /\ Len(result) = n
        /\ \A k \in 1..n :
              result[k] = IF IsSyllable(arg[k])
                          THEN Syllable(Decompose(arg[k] - HANGUL_BASE))
                          ELSE <<arg[k]>>
        /\ (n = 0 => romanized = <<>>)
        /\ (n >= 1 => Len(romanized) = SumLen(result, n) - 1)
        /\ \A k \in 1..n :
              LET off == SumLen(result, k - 1) IN
              /\ SubSeq(romanized, off + 1, off + Len(result[k])) = result[k]
              /\ (k < n => romanized[off + Len(result[k]) + 1] = SEPARATOR)

\* "국! " has been encoded into three blocks and two separators.
C3_Witness ==
    /\ pc = "encoded"
    /\ arg = <<44397, 33, SPACE>>
    /\ result = << <<103, 111, 111, 103>>, <<33>>, <<SPACE>> >>
    /\ romanized = <<103, 111, 111, 103, 92, 33, 92, SPACE>>

(* ------------------------------- C4 ------------------------------------ *)

\* chr() accepts 0..0x10FFFF
MaxCodePoint == 1114111

\* C4: decode never fails (the scan ends matched or unmatched, every
\* lookup of an accepted partition is in its table and the rebuilt code
\* point is one chr() accepts); a non-empty block in which no nucleus
\* candidate leaves a valid Onset and a valid Coda is emitted unchanged;
\* when no block validates, decode returns its input with the enclosing
\* quotes stripped and the separators removed; decode("") = "".
C4_UnparseablePassesThrough ==
    /\ (pc = "dec_vowel" /\ vi > Len(SORTED_MEDIALS)) => ~matched
    /\ (pc = "dec_vowel" /\ vi <= Len(SORTED_MEDIALS)
            /\ Contains(SORTED_MEDIALS[vi], block)) =>
            LET q == Partition(block, SORTED_MEDIALS[vi]) IN
            /\ q[2] \in DOMAIN MEDIAL_MAP
            /\ Validates(q) =>
                  Compose(INITIAL_MAP[q[1]], MEDIAL_MAP[q[2]], FINAL_MAP[q[3]])
                      \in 0..MaxCodePoint
    /\ (BlockDone /\ NoCandidate(block)) =>
            (~matched /\ result[Len(result)] = block)
    /\ (pc = "done" /\ \A k \in 1..Len(blocks) : NoCandidate(blocks[k])) =>
            restored = RemoveSeparators(Strip(dtext, Quotes))
    /\ (pc = "done" /\ dtext = <<>>) => restored = <<>>

\* A quoted text with a separator and a space, none of whose blocks
\* validates, has been decoded to something non-empty.
C4_Witness ==
    /\ pc = "done"
    /\ \A k \in 1..Len(blocks) : NoCandidate(blocks[k])
    /\ DQUOTE \in Range(dtext) /\ SEPARATOR \in Range(dtext)
    /\ SPACE \in Range(dtext)
    /\ Len(restored) >= 2

(* ------------------------------- C5 ------------------------------------ *)

\* s with the separator in place of each space
SpaceToSeparator(s) ==
    [k \in 1..Len(s) |-> IF s[k] = SPACE THEN SEPARATOR ELSE s[k]]

NotSpaceBlock(b) == b # <<SPACE>>

\* C5 as stated: an input delimited by a mix of separators and spaces is
\* parsed into the same sequence of blocks as the same input with the
\* separator in place of each space.
C5_SpaceSameAsSeparator ==
    Splitted =>
        NonEmpty(blocks) =
            NonEmpty(Split(SpaceToSeparator(Strip(dtext, Quotes)), SEPARATOR))

\* C5 amended: a space delimits blocks as the separator does, and is
\* itself kept as a one-character block at its place: the blocks other
\* than the one-space blocks are those of the same input with the
\* separator in place of each space, there is one one-space block per
\* space, and the blocks in order spell the input without its separators.
C5_SpaceDelimitsAndIsKept ==
    Splitted =>
        LET stripped == Strip(dtext, Quotes)
            bs == NonEmpty(blocks)
        IN
        /\ SelectSeq(bs, NotSpaceBlock) =
               NonEmpty(Split(SpaceToSeparator(stripped), SEPARATOR))
        /\ Cardinality({k \in 1..Len(bs) : bs[k] = <<SPACE>>}) =
               Cardinality({k \in 1..Len(stripped) : stripped[k] = SPACE})
        /\ Concat(bs) = RemoveSeparators(stripped)

\* An input that mixes separators and spaces has been split into at
\* least two blocks besides the space blocks.
C5_Witness ==
    /\ Splitted
    /\ SPACE \in Range(dtext) /\ SEPARATOR \in Range(dtext)
    /\ Len(SelectSeq(NonEmpty(blocks), NotSpaceBlock)) >= 2
    /\ \E k \in 1..Len(blocks) : blocks[k] = <<SPACE>>

(* ------------------------------- C6 ------------------------------------ *)

\* encode has just decomposed the syllable text[i - 1]
SyllableEncoded == pc = "enc_loop" /\ i > 1 /\ IsSyllable(text[i - 1])

\* C6: for a syllable c, code = codepoint(c) - 0xAC00, onset = code / 588,
\* nucleus = (code % 588) / 28, coda = code % 28, the three indices lie in
\* 0..18, 0..20 and 0..27, and the block emitted is
\* Onset[onset] + Nucleus[nucleus] + Coda[coda].
C6_DecompositionInRange ==
    SyllableEncoded =>
        /\ code = text[i - 1] - 44032
        /\ onset = code \div 588
        /\ nucleus = (code % 588) \div 28
        /\ coda = code % 28
        /\ onset \in 0..18 /\ nucleus \in 0..20 /\ coda \in 0..27
        /\ onset < Len(INITIALS) /\ nucleus < Len(MEDIALS) /\ coda < Len(FINALS)
        /\ result[i - 1] = At(INITIALS, onset) \o At(MEDIALS, nucleus) \o At(FINALS, coda)

\* The last syllable, U+D7A3, has been decomposed into the last index of
\* each table.
C6_Witness ==
    /\ SyllableEncoded
    /\ text[i - 1] = HANGUL_LAST
    /\ onset = 18 /\ nucleus = 20 /\ coda = 27
    /\ result[i - 1] = <<104, 105, 104>>

(* ------------------------------- C7 ------------------------------------ *)

\* candidate v comes strictly before candidate w in the scan order: longer
\* first, and among equally long tokens the one earlier in the table
ScansBefore(v, w) ==
    \/ Len(v) > Len(w)
    \/ Len(v) = Len(w) /\ MEDIAL_MAP[v] < MEDIAL_MAP[w]

\* C7: decode scans the nucleus tokens in descending length order (ties in
\* table order), cuts the block at the first occurrence of a candidate that
\* occurs in it, and decodes with the first candidate that leaves a valid
\* Onset and a valid Coda: the accepted candidate is the longest valid one,
\* every candidate scanned before it failed, and equal blocks of one input
\* give equal results.
C7_GreedyLongestFirst ==
    /\ (pc = "dec_vowel" /\ vi > 1) =>
          /\ vowel = SORTED_MEDIALS[vi - 1]
          /\ \A k \in 1..(vi - 2) : ScansBefore(SORTED_MEDIALS[k], vowel)
          /\ \A k \in 1..(vi - 1) : ~ValidCandidate(SORTED_MEDIALS[k], block)
          /\ Contains(vowel, block) =>
                /\ p[2] = vowel
                /\ p[1] \o p[2] \o p[3] = block
                /\ \A k \in Occurrences(vowel, block) : k >= Len(p[1]) + 1
    /\ (pc = "dec_vowel" /\ vi > Len(SORTED_MEDIALS)) =>
          Range(MEDIALS) = {SORTED_MEDIALS[k] : k \in 1..(vi - 1)}
    /\ (BlockDone /\ matched) =>
          /\ vowel \in Range(MEDIALS)
          /\ p[2] = vowel
          /\ p[1] \o p[2] \o p[3] = block
          /\ \A k \in Occurrences(vowel, block) : k >= Len(p[1]) + 1
          /\ p[1] \in Range(INITIALS) /\ p[3] \in Range(FINALS)
          /\ At(MEDIALS, nucleus) = vowel
          /\ \A v \in Range(MEDIALS) :
                (v # vowel /\ ValidCandidate(v, block)) => ScansBefore(vowel, v)
          /\ \A v \in Range(MEDIALS) :
                (Contains(v, block) /\ ScansBefore(v, vowel)) => ~ValidCandidate(v, block)
    /\ pc = "done" =>
          LET nb == NonEmpty(blocks) IN
          /\ Len(result) = Len(nb)
          /\ \A j, k \in 1..Len(nb) : nb[j] = nb[k] => result[j] = result[k]

\* The block gyoo, in which the candidates yoo, yo, oo and o all occur, has
\* been decoded with the longest, yoo.
C7_Witness ==
    /\ BlockDone /\ matched
    /\ block = <<103, 121, 111, 111>>
    /\ vowel = <<121, 111, 111>>
    /\ \A v \in {<<121, 111>>, <<111, 111>>, <<111>>} :
          v \in Range(MEDIALS) /\ Contains(v, block)

(* ------------------------------- C8 ------------------------------------ *)

\* s without one leading and one trailing quote character, where present
StripOneLayer(s) ==
    LET a == IF s # <<>> /\ Head(s) \in Quotes THEN Tail(s) ELSE s
    IN IF a # <<>> /\ a[Len(a)] \in Quotes THEN SubSeq(a, 1, Len(a) - 1) ELSE a

\* C8: decode trims exactly one layer of enclosing quotes before splitting:
\* at most one leading and one trailing quote character are removed, any
\* further quote character is kept.
C8_StripsOneLayer ==
    pc = "dec_split" => text = StripOneLayer(dtext)

(* ------------------------------- C9 ------------------------------------ *)

Distinct(T) == \A j, k \in 1..Len(T) : T[j] = T[k] => j = k

Inverse(M, T) ==
    /\ DOMAIN M = Range(T)
    /\ \A k \in 0..(Len(T) - 1) : M[At(T, k)] = k

\* C9: the tables have 19, 21 and 28 tokens, pairwise distinct within a
\* table, so every inverse map gives MAP[TABLE[i]] = i (when the module is
\* loaded, and whenever decode has used the maps); the empty string is
\* Onset 11 and Coda 0; no token holds the separator.
C9_TablesInvertible ==
    /\ pc = "main" =>
          /\ Len(INITIALS) = 19 /\ Len(MEDIALS) = 21 /\ Len(FINALS) = 28
          /\ Distinct(INITIALS) /\ Distinct(MEDIALS) /\ Distinct(FINALS)
          /\ Inverse(INITIAL_MAP, INITIALS)
          /\ Inverse(MEDIAL_MAP, MEDIALS)
          /\ Inverse(FINAL_MAP, FINALS)
          /\ At(INITIALS, 11) = <<>> /\ At(FINALS, 0) = <<>>
          /\ \A T \in {INITIALS, MEDIALS, FINALS} :
                \A tok \in Range(T) : SEPARATOR \notin Range(tok)
    /\ (BlockDone /\ matched) =>
          /\ At(INITIALS, onset) = p[1]
          /\ At(MEDIALS, nucleus) = p[2]
          /\ At(FINALS, coda) = p[3]

\* decode has looked up the empty onset and the empty coda of the block a.
C9_Witness ==
    /\ BlockDone /\ matched
    /\ block = <<97>>
    /\ p = << <<>>, <<97>>, <<>> >>
    /\ onset = 11 /\ nucleus = 0 /\ coda = 0

(* ------------------------------- C10 ----------------------------------- *)

IsPrefix(a, b) == Len(a) <= Len(b) /\ SubSeq(b, 1, Len(a)) = a

\* b is the concatenation of one Onset, one Nucleus and one Coda token
IsSyllableBlock(b) ==
    \E o \in Range(INITIALS) :
        /\ IsPrefix(o, b)
        /\ \E n \in Range(MEDIALS) :
              /\ IsPrefix(o \o n, b)
              /\ \E c \in Range(FINALS) : o \o n \o c = b

\* C10: decode turns a block b into a syllable exactly when b is the
\* concatenation of an Onset, a Nucleus and a Coda token, and the syllable
\* ch it emits is a code point of [U+AC00, U+D7A3] with encode(ch) = b.
C10_DecodedSyllableEncodesBack ==
    BlockDone =>
        /\ matched <=> IsSyllableBlock(block)
        /\ matched =>
              /\ IsSyllable(char_code)
              /\ result[Len(result)] = <<char_code>>
              /\ Syllable(Decompose(char_code - HANGUL_BASE)) = block

\* The block bab, with an onset, a nucleus and a coda, has been decoded to
\* the syllable U+BC25.
C10_Witness ==
    /\ BlockDone /\ matched
    /\ block = <<98, 97, 98>>
    /\ char_code = 48165
    /\ result[Len(result)] = <<48165>>

====
